---- MODULE Spec2Model ----
(***************************************************************************)
(* Model of it-passport-text2csv:                                          *)
(*   - the transcript parser (batch_process.extract_questions_from_text    *)
(*     and the module-level loop of main.py),                              *)
(*   - the batch driver (process_all_text_files, load_answers, the sort    *)
(*     of main and save_to_json),                                          *)
(*   - the database load (insert_questions.insert_questions and main).     *)
(*                                                                         *)
(* Strings are sequences of one-character strings.  The transcript's       *)
(* characters are written in ASCII: "Q" is the question word, "A" "I"      *)
(* "U" "E" are the four kana choice labels, "T" is any other non-space     *)
(* character that is not a lowercase latin letter, " " and "\t" are        *)
(* whitespace and "\n" is the line separator.                              *)
(***************************************************************************)
EXTENDS Integers, Sequences, FiniteSets, TLC

VARIABLES
    \* ---- parser (one invocation) ----
    variant,            \* "batch" (batch_process.py) or "main" (main.py)
    text,               \* the input text
    lines,              \* text.strip().split('\n')
    i,                  \* number of lines already processed
    parsed_data,        \* list of references to question dicts
    current_question,   \* reference to the open dict
    options,            \* reference to the choice accumulator list
    dicts,              \* heap of dict objects, indexed by reference
    lists,              \* heap of list objects, indexed by reference
    ppc,                \* position of the parser: "loop", "done"
    \* ---- batch driver ----
    files,              \* the .txt files under texts/
    answer_file,        \* texts/answer.json
    scan,               \* the order rglob yields the files of this run
    answers_dict,
    all_questions,
    disk_output,        \* outputs/questions.json
    failed,             \* an exception left main of batch_process.py
    bpc,                \* position of main
    \* ---- database load ----
    questions_data,     \* the "questions" array read from questions.json
    prior,              \* rows of the table when the run started
    table,              \* committed rows of questions
    tx,                 \* rows as seen inside the open transaction
    in_tx,              \* a transaction is open on the connection
    k,                  \* rows of questions_data already handled
    inserted_count,
    raised,             \* an exception left main
    dpc                 \* position of the load

parseVars == <<variant, text, lines, i, parsed_data, current_question, options,
               dicts, lists, ppc>>
batchVars == <<files, answer_file, scan, answers_dict, all_questions,
               disk_output, failed, bpc>>
dbVars    == <<questions_data, prior, table, tx, in_tx, k, inserted_count,
               raised, dpc>>
vars      == <<parseVars, batchVars, dbVars>>

-----------------------------------------------------------------------------
(* Bounds *)

MaxLines == 4
MaxFiles == 2
MaxAnswers == 2
MaxRows == 2

-----------------------------------------------------------------------------
(* Characters and the string functions the code uses *)

Whitespace == {" ", "\t", "\n"}
Digits     == {"0", "1", "2", "3", "4", "5", "6", "7", "8", "9"}
KanaLabels == {"A", "I", "U", "E"}
Lowercase  == {"a", "b", "c", "x"}

IsSpace(c) == c \in Whitespace

RECURSIVE LStrip(_)
LStrip(s) ==
    IF s # <<>> /\ IsSpace(Head(s)) THEN LStrip(Tail(s)) ELSE s

RECURSIVE RStrip(_)
RStrip(s) ==
    IF s # <<>> /\ IsSpace(s[Len(s)]) THEN RStrip(SubSeq(s, 1, Len(s) - 1)) ELSE s

\* str.strip()
Strip(s) == RStrip(LStrip(s))

\* str.split('\n')
RECURSIVE SplitNL(_)
SplitNL(s) ==
    IF \E p \in 1..Len(s) : s[p] = "\n"
    THEN LET p == CHOOSE q \in 1..Len(s) :
                     s[q] = "\n" /\ \A r \in 1..(q - 1) : s[r] # "\n"
         IN  <<SubSeq(s, 1, p - 1)>> \o SplitNL(SubSeq(s, p + 1, Len(s)))
    ELSE <<s>>

\* length of the longest prefix of s made of characters of set cs
RECURSIVE Span(_, _)
Span(s, cs) ==
    IF s # <<>> /\ Head(s) \in cs THEN 1 + Span(Tail(s), cs) ELSE 0

\* re.split(r'\s{2,}', s): cut at every maximal run of two or more whitespace
RECURSIVE SplitWide(_, _)
SplitWide(s, acc) ==
    IF s = <<>> THEN <<acc>>
    ELSE LET w == Span(s, Whitespace)
         IN  IF w >= 2
             THEN <<acc>> \o SplitWide(SubSeq(s, w + 1, Len(s)), <<>>)
             ELSE SplitWide(Tail(s), Append(acc, Head(s)))

re_split_wide(s) == SplitWide(s, <<>>)

\* question_start_pattern = ^Q(\d+)\s(.*)
NoMatch == [ok |-> FALSE, number |-> <<>>, rest |-> <<>>]

question_start_pattern(s) ==
    IF s = <<>> \/ Head(s) # "Q" THEN NoMatch
    ELSE LET d == Span(Tail(s), Digits)
         IN  IF d >= 1 /\ Len(s) >= d + 2 /\ IsSpace(s[d + 2])
             THEN [ok     |-> TRUE,
                   number |-> SubSeq(s, 2, d + 1),
                   rest   |-> SubSeq(s, d + 3, Len(s))]
             ELSE NoMatch

\* answer_option_pattern = ^[AIUE]\s
answer_option_pattern(s) ==
    Len(s) >= 2 /\ s[1] \in KanaLabels /\ IsSpace(s[2])

\* re.match(r'^[a-z]\s', line)  (main.py only)
sub_item_pattern(s) ==
    Len(s) >= 2 /\ s[1] \in Lowercase /\ IsSpace(s[2])

-----------------------------------------------------------------------------
(* Python objects of the parser.  A dict is a function on its keys, a list  *)
(* is a sequence; both live in a heap and are named by reference, so that   *)
(* two names of one object see each other's updates.                        *)

EmptyDict == [x \in {} |-> <<>>]

DictSet(d, key, v) ==
    [x \in (DOMAIN d) \cup {key} |-> IF x = key THEN v ELSE d[x]]

\* truth value of a dict: it has a key
Truthy(d) == DOMAIN d # {}

\* parsed_data = [] ; current_question = {} ; options = []
NewParse ==
    [parsed_data      |-> <<>>,
     current_question |-> 1,
     options          |-> 1,
     dicts            |-> <<EmptyDict>>,
     lists            |-> << <<>> >>]

\* current_question['options'] = options ; parsed_data.append(current_question)
AttachAndAppend(st) ==
    [st EXCEPT
        !.dicts[st.current_question] = DictSet(@, "options", st.options),
        !.parsed_data = Append(@, st.current_question)]

\* faulty variant: options.clear(), which empties the list in place
ResetOptions_Clear(st) ==
    [st EXCEPT !.lists[st.options] = <<>>]

\* options = []  : the name is bound to a new list object
ResetOptions(st) ==
    [st EXCEPT !.lists = Append(@, <<>>), !.options = Len(st.lists) + 1]

\* the "save the previous question" block
SealQuestion(st) == ResetOptions(AttachAndAppend(st))

\* current_question = {'question_number': group(1), 'question_text': group(2).strip()}
OpenQuestion(st, m) ==
    [st EXCEPT
        !.dicts = Append(@, [question_number |-> m.number,
                             question_text   |-> Strip(m.rest)]),
        !.current_question = Len(st.dicts) + 1]

\* options.extend(re.split(r'\s{2,}', line.strip()))
ExtendOptions(st, line) ==
    [st EXCEPT !.lists[st.options] = @ \o re_split_wide(Strip(line))]

\* options.append(line.strip())   (main.py)
AppendOption(st, line) ==
    [st EXCEPT !.lists[st.options] = Append(@, Strip(line))]

\* current_question['question_text'] += sep + line.strip()
AppendText(st, sep, line) ==
    [st EXCEPT !.dicts[st.current_question] =
        DictSet(@, "question_text", @.question_text \o <<sep>> \o Strip(line))]

\* the condition of the continuation branch of batch_process.py
ContinuesBatch(st, line) ==
    /\ "question_text" \in DOMAIN st.dicts[st.current_question]
    /\ line # <<>>
    /\ ~answer_option_pattern(line)

\* the condition of the continuation branch of main.py
ContinuesMain(st, line) ==
    /\ ContinuesBatch(st, line)
    /\ ~sub_item_pattern(line)

\* one iteration of the loop over the lines
ParseLine(st, rawline, v) ==
    LET line == Strip(rawline)
        m    == question_start_pattern(line)
    IN  IF m.ok
        THEN OpenQuestion(IF Truthy(st.dicts[st.current_question])
                          THEN SealQuestion(st) ELSE st, m)
        ELSE IF answer_option_pattern(line)
        THEN ExtendOptions(st, line)
        ELSE IF v = "batch"
        THEN IF ContinuesBatch(st, line) THEN AppendText(st, "\n", line) ELSE st
        ELSE LET st1 == IF ContinuesMain(st, line)
                        THEN AppendText(st, " ", line) ELSE st
             IN  IF sub_item_pattern(line) THEN AppendOption(st1, line) ELSE st1

\* faulty variant: the loop ends without saving the open question
FinalizeParse_Drop(st) == st

\* the "save the last question" block after the loop
FinalizeParse(st) ==
    IF Truthy(st.dicts[st.current_question]) THEN AttachAndAppend(st) ELSE st

\* the value of a question dict whose choice list is attached
RecordOf(ds, ls, ref) ==
    [question_number |-> ds[ref].question_number,
     question_text   |-> ds[ref].question_text,
     options         |-> ls[ds[ref].options]]

\* the records of parsed_data, by value
RecordsOf(pd, ds, ls) ==
    [n \in 1..Len(pd) |-> RecordOf(ds, ls, pd[n])]

RECURSIVE ParseLines(_, _, _)
ParseLines(st, ls, v) ==
    IF ls = <<>> THEN st ELSE ParseLines(ParseLine(st, Head(ls), v), Tail(ls), v)

\* extract_questions_from_text: the returned list, by value
extract_questions_from_text(content) ==
    LET st == FinalizeParse(ParseLines(NewParse, SplitNL(Strip(content)), "batch"))
    IN  RecordsOf(st.parsed_data, st.dicts, st.lists)

-----------------------------------------------------------------------------
(* Inputs of the parser *)

LinePool ==
    { <<"Q", "1", " ", "T">>,                        \* marker 1
      <<"Q", "1", "0", "\t", "T", " ", "x">>,        \* marker 10, tab
      <<" ", "Q", "9", " ", " ", "T", " ">>,         \* marker 9, padded
      <<"Q", "1", " ">>,                             \* no text after the digits
      <<"A", " ", "a", " ", "b", " ", "\t", "I", " ", "c">>,  \* two choices
      <<"a", " ", "T">>,                             \* lettered sub-item
      <<"T", "x">>,                                  \* prose
      <<>> }                                         \* empty line

SeqsUpTo(S, n) == UNION { [1..m -> S] : m \in 0..n }

RECURSIVE JoinNL(_)
JoinNL(ls) ==
    IF ls = <<>> THEN <<>>
    ELSE IF Len(ls) = 1 THEN ls[1]
    ELSE ls[1] \o <<"\n">> \o JoinNL(Tail(ls))

Texts == { JoinNL(ls) : ls \in SeqsUpTo(LinePool, MaxLines) }

-----------------------------------------------------------------------------
(* The parser as a state machine *)

ParserState ==
    [parsed_data      |-> parsed_data,
     current_question |-> current_question,
     options          |-> options,
     dicts            |-> dicts,
     lists            |-> lists]

SetParserState(st) ==
    /\ parsed_data' = st.parsed_data
    /\ current_question' = st.current_question
    /\ options' = st.options
    /\ dicts' = st.dicts
    /\ lists' = st.lists

ParserStart(v, t) ==
    /\ variant = v
    /\ text = t
    /\ lines = SplitNL(Strip(t))
    /\ i = 0
    /\ parsed_data = NewParse.parsed_data
    /\ current_question = NewParse.current_question
    /\ options = NewParse.options
    /\ dicts = NewParse.dicts
    /\ lists = NewParse.lists
    /\ ppc = "loop"

ParserIdle ==
    /\ variant = "batch"
    /\ text = <<>>
    /\ lines = <<>>
    /\ i = 0
    /\ parsed_data = <<>>
    /\ current_question = 1
    /\ options = 1
    /\ dicts = <<EmptyDict>>
    /\ lists = << <<>> >>
    /\ ppc = "idle"

\* for i, line in enumerate(lines): ...
ProcessLine ==
    /\ ppc = "loop"
    /\ i < Len(lines)
    /\ SetParserState(ParseLine(ParserState, lines[i + 1], variant))
    /\ i' = i + 1
    /\ UNCHANGED <<variant, text, lines, ppc>>

\* the end of the loop: the last question is saved and the list returned
Finalize ==
    /\ ppc = "loop"
    /\ i = Len(lines)
    /\ SetParserState(FinalizeParse(ParserState))
    /\ ppc' = "done"
    /\ UNCHANGED <<variant, text, lines, i>>

-----------------------------------------------------------------------------
(* The batch driver: batch_process.py *)

NoDoc == <<>>

\* 'management' in file_path, ... : a path is the sequence of its words
Contains(path, word) == \E n \in 1..Len(path) : path[n] = word

determine_question_type(file_path) ==
    IF Contains(file_path, "management") THEN "management"
    ELSE IF Contains(file_path, "strategy") THEN "strategy"
    ELSE IF Contains(file_path, "technology") THEN "technology"
    ELSE "unknown"

\* question['question_type'] = question_type
Tagged(q, question_type) ==
    [question_number |-> q.question_number,
     question_text   |-> q.question_text,
     options         |-> q.options,
     question_type   |-> question_type]

TagAll(qs, question_type) ==
    [n \in 1..Len(qs) |-> Tagged(qs[n], question_type)]

\* the body of the loop over the files: a file that cannot be read raises
\* inside the try block and is skipped
ProcessFile(acc, fs, path) ==
    IF fs[path].readable
    THEN acc \o TagAll(extract_questions_from_text(fs[path].content),
                       determine_question_type(path))
    ELSE acc

RECURSIVE ProcessFiles(_, _, _)
ProcessFiles(acc, fs, order) ==
    IF order = <<>> THEN acc
    ELSE ProcessFiles(ProcessFile(acc, fs, Head(order)), fs, Tail(order))

\* process_all_text_files, for the order in which rglob yields the files
process_all_text_files(fs, order) == ProcessFiles(<<>>, fs, order)

\* a JSON object of the answer key (anything else has no .get)
IsDict(item) == item.json = "object"

DictGet(d, key, default) == IF key \in DOMAIN d THEN d[key] ELSE default

\* the loop over answers_data: the answers read, and whether an item raised
RECURSIVE ReadItems(_, _)
ReadItems(items, acc) ==
    IF items = <<>> THEN [answers |-> acc, error |-> FALSE]
    ELSE IF ~IsDict(Head(items)) THEN [answers |-> acc, error |-> TRUE]
    ELSE LET question_number == DictGet(Head(items).fields, "question_number", <<>>)
             question_answer == DictGet(Head(items).fields, "question_answer", <<>>)
         IN  ReadItems(Tail(items),
                       IF question_number # <<>>
                       THEN DictSet(acc, question_number, question_answer)
                       ELSE acc)

\* faulty variant: a malformed answer key is fatal (the error is not caught)
load_answers_Fatal(af) ==
    IF af.kind = "missing" THEN [answers |-> EmptyDict, raised |-> FALSE]
    ELSE IF af.kind = "unreadable" THEN [answers |-> EmptyDict, raised |-> FALSE]
    ELSE IF af.kind = "malformed" THEN [answers |-> EmptyDict, raised |-> TRUE]
    ELSE [answers |-> ReadItems(af.data, EmptyDict).answers, raised |-> FALSE]

\* load_answers: the dict returned, and whether an exception leaves the call.
\* open() raises FileNotFoundError (missing) or another OSError (unreadable),
\* json.load raises JSONDecodeError (malformed); both handlers fall through
\* to "return answers_dict".
load_answers(af) ==
    IF af.kind = "missing" THEN [answers |-> EmptyDict, raised |-> FALSE]
    ELSE IF af.kind \in {"unreadable", "malformed"}
    THEN [answers |-> EmptyDict, raised |-> FALSE]
    ELSE [answers |-> ReadItems(af.data, EmptyDict).answers, raised |-> FALSE]

\* int(s) of a string of decimal digits
DigitValue(c) ==
    CASE c = "0" -> 0 [] c = "1" -> 1 [] c = "2" -> 2 [] c = "3" -> 3
      [] c = "4" -> 4 [] c = "5" -> 5 [] c = "6" -> 6 [] c = "7" -> 7
      [] c = "8" -> 8 [] c = "9" -> 9

RECURSIVE int(_)
int(s) ==
    IF s = <<>> THEN 0
    ELSE 10 * int(SubSeq(s, 1, Len(s) - 1)) + DigitValue(s[Len(s)])

\* s <= t as strings (code point order; digits are ordered as their values)
RECURSIVE StrLE(_, _)
StrLE(s, t) ==
    IF s = <<>> THEN TRUE
    ELSE IF t = <<>> THEN FALSE
    ELSE IF Head(s) # Head(t) THEN DigitValue(Head(s)) < DigitValue(Head(t))
    ELSE StrLE(Tail(s), Tail(t))

\* faulty variant: the sort key is the number as a string
KeyLE_Lexical(a, b) == StrLE(a.question_number, b.question_number)

\* order of the sort keys: key=lambda x: int(x.get('question_number', '0'))
KeyLE(a, b) == int(a.question_number) <= int(b.question_number)

\* list.sort is stable: x goes after every element whose key is not greater
RECURSIVE InsertByKey(_, _)
InsertByKey(sorted, x) ==
    IF sorted = <<>> THEN <<x>>
    ELSE IF KeyLE(Head(sorted), x)
    THEN <<Head(sorted)>> \o InsertByKey(Tail(sorted), x)
    ELSE <<x>> \o sorted

RECURSIVE sort_by_number(_)
sort_by_number(qs) ==
    IF qs = <<>> THEN <<>>
    ELSE InsertByKey(sort_by_number(SubSeq(qs, 1, Len(qs) - 1)), qs[Len(qs)])

\* faulty variant: the answer is looked up under the record's text
formatted_question_ByText(question, answers) ==
    [question_number |-> question.question_number,
     question_type   |-> question.question_type,
     question_text   |-> question.question_text,
     options         |-> question.options,
     question_answer |-> DictGet(answers, question.question_text, <<>>)]

\* formatted_question of save_to_json
formatted_question(question, answers) ==
    [question_number |-> question.question_number,
     question_type   |-> question.question_type,
     question_text   |-> question.question_text,
     options         |-> question.options,
     question_answer |-> DictGet(answers, question.question_number, <<>>)]

\* the document save_to_json writes
save_to_json(questions, answers) ==
    [questions |-> [n \in 1..Len(questions) |->
                        formatted_question(questions[n], answers)]]

-----------------------------------------------------------------------------
(* Inputs of the batch driver *)

PathPool ==
    { <<"texts", "management", "a.txt">>,
      <<"texts", "strategy", "b.txt">>,
      <<"texts", "c.txt">> }

ContentPool ==
    { JoinNL(<< <<"Q", "1", "0", " ", "T">>,
                <<"A", " ", "a", " ", " ", "I", " ", "b">>,
                <<"Q", "9", " ", "T">> >>),
      JoinNL(<< <<"Q", "9", " ", "T", "x">> >>),
      JoinNL(<< <<"T", "x">>, <<"Q", "2", " ", "T">> >>) }

FilePool ==
    [readable : {TRUE}, content : ContentPool]
        \cup { [readable |-> FALSE, content |-> <<>>] }

\* the directory trees: at most MaxFiles files, each at its own path
FileSets ==
    UNION { [S -> FilePool] :
                S \in { T \in SUBSET PathPool : Cardinality(T) <= MaxFiles } }

\* the orders in which a scan may yield the files
Orders(fs) ==
    { o \in [1..Cardinality(DOMAIN fs) -> DOMAIN fs] :
        \A a, b \in DOMAIN o : a # b => o[a] # o[b] }

AnswerItemPool ==
    { [json |-> "object",
       fields |-> [question_number |-> <<"9">>, question_answer |-> <<"U">>]],
      [json |-> "object",
       fields |-> [question_number |-> <<"1", "0">>, question_answer |-> <<"A">>]],
      [json |-> "object", fields |-> [question_answer |-> <<"E">>]],
      [json |-> "number"] }

AnswerFiles ==
    { [kind |-> "missing"], [kind |-> "unreadable"], [kind |-> "malformed"] }
        \cup { [kind |-> "data", data |-> d] :
                    d \in SeqsUpTo(AnswerItemPool, MaxAnswers) }

-----------------------------------------------------------------------------
(* main of batch_process.py as a state machine.  The texts directory       *)
(* exists and the output file can be written.                              *)

BatchStart(fs, af) ==
    /\ files = fs
    /\ answer_file = af
    /\ scan = <<>>
    /\ answers_dict = EmptyDict
    /\ all_questions = <<>>
    /\ disk_output = NoDoc
    /\ failed = FALSE
    /\ bpc = "start"

BatchIdle ==
    /\ files = EmptyDict
    /\ answer_file = [kind |-> "missing"]
    /\ scan = <<>>
    /\ answers_dict = EmptyDict
    /\ all_questions = <<>>
    /\ disk_output = NoDoc
    /\ failed = FALSE
    /\ bpc = "idle"

\* answers_dict = load_answers(answer_file)
LoadAnswers ==
    /\ bpc = "start"
    /\ LET r == load_answers(answer_file)
       IN  /\ answers_dict' = r.answers
           /\ failed' = r.raised
           /\ bpc' = IF r.raised THEN "aborted" ELSE "scan"
    /\ UNCHANGED <<files, answer_file, scan, all_questions, disk_output>>

\* all_questions = process_all_text_files(texts_directory), and the early
\* return when nothing was found
ScanFiles ==
    /\ bpc = "scan"
    /\ \E order \in Orders(files) :
          /\ scan' = order
          /\ all_questions' = process_all_text_files(files, order)
    /\ bpc' = IF all_questions' = <<>> THEN "done" ELSE "sort"
    /\ UNCHANGED <<files, answer_file, answers_dict, disk_output, failed>>

\* all_questions.sort(key=...)
SortQuestions ==
    /\ bpc = "sort"
    /\ all_questions' = sort_by_number(all_questions)
    /\ bpc' = "save"
    /\ UNCHANGED <<files, answer_file, scan, answers_dict, disk_output, failed>>

\* save_to_json(all_questions, output_json, answers_dict)
SaveToJson ==
    /\ bpc = "save"
    /\ disk_output' = save_to_json(all_questions, answers_dict)
    /\ bpc' = "done"
    /\ UNCHANGED <<files, answer_file, scan, answers_dict, all_questions, failed>>

\* the program is run again: a new process, the same files on disk
Rerun ==
    /\ bpc = "done"
    /\ bpc' = "start"
    /\ scan' = <<>>
    /\ answers_dict' = EmptyDict
    /\ all_questions' = <<>>
    /\ UNCHANGED <<files, answer_file, disk_output, failed>>

-----------------------------------------------------------------------------
(* The database load: insert_questions.py *)

\* a column value: None (NULL) is <<>>, any other value v is <<v>>
None == <<>>

Some(v) == <<v>>

IsDigits(s) == s # <<>> /\ \A n \in 1..Len(s) : s[n] \in Digits

\* int(value), None on ValueError
IdOf(value) == IF IsDigits(value) THEN Some(int(value)) ELSE None

\* str(value) of a present key, None for a missing key
ColumnOf(question_data, json_key) ==
    IF json_key \in DOMAIN question_data
    THEN Some(question_data[json_key]) ELSE None

\* map_json_to_db_row of a JSON object
map_json_to_db_row(question_data) ==
    [id       |-> IF "question_number" \in DOMAIN question_data
                  THEN IdOf(question_data.question_number) ELSE None,
     type     |-> ColumnOf(question_data, "question_type"),
     question |-> ColumnOf(question_data, "question_text"),
     options  |-> ColumnOf(question_data, "options"),
     answer   |-> ColumnOf(question_data, "question_answer")]

\* the connection: committed rows, rows seen by the open transaction
Connection == [table |-> table, tx |-> tx, in_tx |-> in_tx]

SetConnection(c) ==
    /\ table' = c.table
    /\ tx' = c.tx
    /\ in_tx' = c.in_tx

\* cursor.execute("TRUNCATE TABLE questions RESTART IDENTITY;")
Truncated(c) == [c EXCEPT !.tx = <<>>, !.in_tx = TRUE]

\* cursor.execute(insert_sql, db_row)
Inserted(c, row) == [c EXCEPT !.tx = Append(@, row), !.in_tx = TRUE]

\* faulty variant: the handler commits what was done so far
Rollback_Commits(c) == [c EXCEPT !.table = c.tx, !.in_tx = FALSE]

\* conn.rollback()
Rollback(c) == [c EXCEPT !.tx = c.table, !.in_tx = FALSE]

\* conn.commit()
Commit(c) == [c EXCEPT !.table = c.tx, !.in_tx = FALSE]


\* the "questions" arrays of questions.json
QuestionPool ==
    { [json |-> "object",
       fields |-> [question_number |-> <<"1">>, question_type |-> "management",
                   question_text |-> <<"T">>, options |-> << <<"A", " ", "a">> >>,
                   question_answer |-> <<"U">>]],
      [json |-> "object",
       fields |-> [question_number |-> <<"2">>, question_type |-> "unknown",
                   question_text |-> <<"T", "x">>, options |-> <<>>,
                   question_answer |-> <<>>]],
      [json |-> "object",
       fields |-> [question_number |-> <<"x">>, question_type |-> "unknown",
                   question_text |-> <<"T">>, options |-> <<>>,
                   question_answer |-> <<>>]],
      [json |-> "number"] }

\* the contents the table may have before the run
PriorPool ==
    { <<>>,
      << [id |-> Some(7), type |-> Some("strategy"), question |-> Some(<<"T">>),
          options |-> Some(<<>>), answer |-> Some(<<"E">>)] >> }

DbStart(qs, rows) ==
    /\ questions_data = qs
    /\ prior = rows
    /\ table = rows
    /\ tx = rows
    /\ in_tx = FALSE
    /\ k = 0
    /\ inserted_count = 0
    /\ raised = FALSE
    /\ dpc = "start"

DbIdle ==
    /\ questions_data = <<>>
    /\ prior = <<>>
    /\ table = <<>>
    /\ tx = <<>>
    /\ in_tx = FALSE
    /\ k = 0
    /\ inserted_count = 0
    /\ raised = FALSE
    /\ dpc = "idle"

\* main: "if not questions: return"
NoQuestions ==
    /\ dpc = "start"
    /\ questions_data = <<>>
    /\ dpc' = "done"
    /\ UNCHANGED <<questions_data, prior, table, tx, in_tx, k, inserted_count, raised>>

\* main: get_db_connection() returns a connection
Connect ==
    /\ dpc = "start"
    /\ questions_data # <<>>
    /\ dpc' = "truncate"
    /\ UNCHANGED <<questions_data, prior, table, tx, in_tx, k, inserted_count, raised>>

\* main: psycopg2.connect fails; the error is logged and raised again
ConnectFails ==
    /\ dpc = "start"
    /\ questions_data # <<>>
    /\ raised' = TRUE
    /\ dpc' = "failed"
    /\ UNCHANGED <<questions_data, prior, table, tx, in_tx, k, inserted_count>>

\* insert_questions: the TRUNCATE statement succeeds
Truncate ==
    /\ dpc = "truncate"
    /\ SetConnection(Truncated(Connection))
    /\ dpc' = "insert"
    /\ UNCHANGED <<questions_data, prior, k, inserted_count, raised>>

\* insert_questions: the TRUNCATE statement fails and the error is raised
\* (the transaction is open and aborted; the with block ends it)
TruncateFails ==
    /\ dpc = "truncate"
    /\ in_tx' = TRUE
    /\ dpc' = "exit_error"
    /\ UNCHANGED <<questions_data, prior, table, tx, k, inserted_count, raised>>

\* loop body: the row has no valid id and is skipped
SkipRow ==
    /\ dpc = "insert"
    /\ k < Len(questions_data)
    /\ questions_data[k + 1].json = "object"
    /\ map_json_to_db_row(questions_data[k + 1].fields).id = None
    /\ k' = k + 1
    /\ UNCHANGED <<questions_data, prior, table, tx, in_tx, inserted_count, raised, dpc>>

\* loop body: the row is inserted
InsertRow ==
    /\ dpc = "insert"
    /\ k < Len(questions_data)
    /\ questions_data[k + 1].json = "object"
    /\ LET db_row == map_json_to_db_row(questions_data[k + 1].fields)
       IN  /\ db_row.id # None
           /\ SetConnection(Inserted(Connection, db_row))
    /\ inserted_count' = inserted_count + 1
    /\ k' = k + 1
    /\ UNCHANGED <<questions_data, prior, raised, dpc>>

\* loop body: cursor.execute raises psycopg2.Error; rollback, raise
InsertRowFails ==
    /\ dpc = "insert"
    /\ k < Len(questions_data)
    /\ questions_data[k + 1].json = "object"
    /\ map_json_to_db_row(questions_data[k + 1].fields).id # None
    /\ SetConnection(Rollback(Connection))
    /\ dpc' = "exit_error"
    /\ UNCHANGED <<questions_data, prior, k, inserted_count, raised>>

\* loop body: map_json_to_db_row raises on an item that is no object
\* ("except Exception": rollback, raise)
RowRaises ==
    /\ dpc = "insert"
    /\ k < Len(questions_data)
    /\ questions_data[k + 1].json # "object"
    /\ SetConnection(Rollback(Connection))
    /\ dpc' = "exit_error"
    /\ UNCHANGED <<questions_data, prior, k, inserted_count, raised>>

\* after the loop: conn.commit(), the count is returned
CommitAll ==
    /\ dpc = "insert"
    /\ k = Len(questions_data)
    /\ SetConnection(Commit(Connection))
    /\ dpc' = "exit_ok"
    /\ UNCHANGED <<questions_data, prior, k, inserted_count, raised>>

\* main: the with block ends normally (the connection commits)
ExitOk ==
    /\ dpc = "exit_ok"
    /\ SetConnection(Commit(Connection))
    /\ dpc' = "done"
    /\ UNCHANGED <<questions_data, prior, k, inserted_count, raised>>

\* main: the with block ends by an exception (the connection rolls back),
\* the error is logged and raised again
ExitError ==
    /\ dpc = "exit_error"
    /\ SetConnection(Rollback(Connection))
    /\ raised' = TRUE
    /\ dpc' = "failed"
    /\ UNCHANGED <<questions_data, prior, k, inserted_count>>

-----------------------------------------------------------------------------
(* Specification of one parser invocation, over every text of Texts and    *)
(* both variants of the loop                                               *)

InitParse ==
    /\ \E v \in {"batch", "main"} : \E t \in Texts : ParserStart(v, t)
    /\ BatchIdle
    /\ DbIdle

NextParse ==
    \/ ProcessLine /\ UNCHANGED <<batchVars, dbVars>>
    \/ Finalize /\ UNCHANGED <<batchVars, dbVars>>

SpecParse == InitParse /\ [][NextParse]_vars

-----------------------------------------------------------------------------
(* Specification of the batch driver, run any number of times on the same  *)
(* files                                                                   *)

InitBatch ==
    /\ \E fs \in FileSets : \E af \in AnswerFiles : BatchStart(fs, af)
    /\ ParserIdle
    /\ DbIdle

NextBatch ==
    \/ LoadAnswers /\ UNCHANGED <<parseVars, dbVars>>
    \/ ScanFiles /\ UNCHANGED <<parseVars, dbVars>>
    \/ SortQuestions /\ UNCHANGED <<parseVars, dbVars>>
    \/ SaveToJson /\ UNCHANGED <<parseVars, dbVars>>
    \/ Rerun /\ UNCHANGED <<parseVars, dbVars>>

SpecBatch == InitBatch /\ [][NextBatch]_vars

-----------------------------------------------------------------------------
(* Specification of one run of the database load *)

InitDb ==
    /\ \E qs \in SeqsUpTo(QuestionPool, MaxRows) : \E rows \in PriorPool :
          DbStart(qs, rows)
    /\ ParserIdle
    /\ BatchIdle

NextDb ==
    \/ NoQuestions /\ UNCHANGED <<parseVars, batchVars>>
    \/ Connect /\ UNCHANGED <<parseVars, batchVars>>
    \/ ConnectFails /\ UNCHANGED <<parseVars, batchVars>>
    \/ Truncate /\ UNCHANGED <<parseVars, batchVars>>
    \/ TruncateFails /\ UNCHANGED <<parseVars, batchVars>>
    \/ SkipRow /\ UNCHANGED <<parseVars, batchVars>>
    \/ InsertRow /\ UNCHANGED <<parseVars, batchVars>>
    \/ InsertRowFails /\ UNCHANGED <<parseVars, batchVars>>
    \/ RowRaises /\ UNCHANGED <<parseVars, batchVars>>
    \/ CommitAll /\ UNCHANGED <<parseVars, batchVars>>
    \/ ExitOk /\ UNCHANGED <<parseVars, batchVars>>
    \/ ExitError /\ UNCHANGED <<parseVars, batchVars>>

SpecDb == InitDb /\ [][NextDb]_vars

-----------------------------------------------------------------------------
(* Claims about the parser (checked under SpecParse) *)

\* lines of the input text that, once trimmed, match the question-start marker
MarkerLinesOfText ==
    { n \in 1..Len(SplitNL(text)) :
        question_start_pattern(Strip(SplitNL(text)[n])).ok }

\* C1: when the parser returns, the number of records equals the number of
\* lines of the input that (after trimming) match the question-start marker,
\* the last one included; with no marker line the result is empty.
C1_RecordsEqualMarkers ==
    ppc = "done" => Len(parsed_data) = Cardinality(MarkerLinesOfText)

\* C1 witness: a run that returned two records, the second sealed at end of input
C1_Witness ==
    /\ ppc = "done"
    /\ Len(parsed_data) = 2
    /\ Cardinality(MarkerLinesOfText) = 2

\* positions, in lines, of the marker lines
MarkerIdx ==
    { n \in 1..Len(lines) : question_start_pattern(Strip(lines[n])).ok }

\* position of the j-th marker line
NthMarker(j) ==
    CHOOSE n \in MarkerIdx : Cardinality({ m \in MarkerIdx : m <= n }) = j

\* last line of the j-th record's own segment
SegmentEnd(j) ==
    IF j < Cardinality(MarkerIdx) THEN NthMarker(j + 1) - 1 ELSE Len(lines)

\* the choice fragments one line contributes
LineChoices(raw) ==
    LET l == Strip(raw)
    IN  IF question_start_pattern(l).ok THEN <<>>
        ELSE IF answer_option_pattern(l) THEN re_split_wide(l)
        ELSE IF variant = "main" /\ sub_item_pattern(l) THEN <<l>>
        ELSE <<>>

RECURSIVE ChoicesIn(_, _)
ChoicesIn(a, b) ==
    IF a > b THEN <<>> ELSE LineChoices(lines[a]) \o ChoicesIn(a + 1, b)

\* C2 (as claimed): every record's choices are exactly the fragments of the
\* choice lines between its own marker and the next marker or end of input,
\* and the accumulator is empty right after a record is opened.
C2_ChoicesFromOwnSegment ==
    /\ (ppc = "done" =>
            \A j \in 1..Len(parsed_data) :
                lists[dicts[parsed_data[j]].options]
                    = ChoicesIn(NthMarker(j) + 1, SegmentEnd(j)))
    /\ (ppc = "loop" /\ i >= 1 /\ i \in MarkerIdx => lists[options] = <<>>)

\* C10: once a record is in parsed_data, no later step changes its number,
\* text or choices, and its choice list is not the list the accumulator
\* names afterwards.
C10_SealedNeverMutated ==
    [][\A n \in 1..Len(parsed_data) :
          /\ n <= Len(parsed_data')
          /\ parsed_data'[n] = parsed_data[n]
          /\ RecordOf(dicts', lists', parsed_data'[n])
                = RecordOf(dicts, lists, parsed_data[n])
          /\ dicts[parsed_data[n]].options # options']_vars

\* C10 witness: after a record was sealed, a choice line of the next record
\* has been accumulated
C10_Witness ==
    /\ ppc = "loop"
    /\ Len(parsed_data) >= 1
    /\ lists[options] # <<>>
    /\ \A n \in 1..Len(parsed_data) : parsed_data[n] # current_question
    /\ lists[dicts[parsed_data[1]].options] # <<>>

-----------------------------------------------------------------------------
(* Claims about the batch driver (checked under SpecBatch) *)

\* the question numbers the markers of the readable files carry
MarkerNumbers(content) ==
    LET ls == SplitNL(content)
    IN  { question_start_pattern(Strip(ls[n])).number :
            n \in { m \in 1..Len(ls) : question_start_pattern(Strip(ls[m])).ok } }

\* C3 (as claimed): after the scan of a batch no two collected records have
\* the same question number, and every number is the digit string of a
\* marker of a file that was read.
C3_NumbersUniqueInBatch ==
    bpc \in {"sort", "save", "done"} =>
        /\ \A a, b \in 1..Len(all_questions) :
              a # b => all_questions[a].question_number
                          # all_questions[b].question_number
        /\ \A a \in 1..Len(all_questions) :
              \E path \in DOMAIN files :
                  /\ files[path].readable
                  /\ all_questions[a].question_number
                        \in MarkerNumbers(files[path].content)

\* C4 (as claimed): once a run has written the output document, a later run
\* on the same files and answer key writes the same document, whatever the
\* order of its scan.
C4_RerunWritesSameDocument ==
    [][disk_output # NoDoc => disk_output' = disk_output]_vars

\* the answers of the written document are all empty
AllAnswersEmpty ==
    \A n \in 1..Len(disk_output.questions) :
        disk_output.questions[n].question_answer = <<>>

\* this run has written the document
Written == bpc = "done" /\ all_questions # <<>>

\* C5 (as claimed): with a malformed answer key load_answers fails fatally:
\* the error leaves main and no output document is written.
C5_MalformedIsFatal ==
    (answer_file.kind = "malformed" /\ bpc # "start") =>
        (failed /\ bpc = "aborted" /\ disk_output = NoDoc)

\* C5 (amended): with a malformed answer key the error is caught inside
\* load_answers, which returns an empty map; no exception leaves main, and
\* a run that collected records writes the document with every answer empty.
C5_MalformedIsCaught ==
    (answer_file.kind = "malformed" /\ bpc # "start") =>
        /\ ~failed
        /\ bpc # "aborted"
        /\ answers_dict = EmptyDict
        /\ (Written => disk_output # NoDoc /\ AllAnswersEmpty)

\* C5 witness: a run over a malformed answer key that wrote its document
C5_Witness ==
    /\ answer_file.kind = "malformed"
    /\ Written
    /\ disk_output # NoDoc
    /\ Len(disk_output.questions) >= 2

\* the load of the answer key hits an error (in open, json.load or the loop)
LoadFails ==
    \/ answer_file.kind # "data"
    \/ ReadItems(answer_file.data, EmptyDict).error

\* C6 (as claimed): whenever the load of the answer key fails, also in the
\* loop after some entries were read, the run continues with an empty map
\* and every record of the document has an empty answer.
C6_FailedLoadGivesEmptyMap ==
    (LoadFails /\ bpc # "start") =>
        /\ ~failed
        /\ answers_dict = EmptyDict
        /\ (Written => AllAnswersEmpty)

\* number of positions of s that hold x
Count(s, x) == Cardinality({ n \in 1..Len(s) : s[n] = x })

\* s and t hold the same elements the same number of times
SameBag(s, t) ==
    /\ Len(s) = Len(t)
    /\ \A n \in 1..Len(s) : Count(s, s[n]) = Count(t, s[n])

\* C8: after the sort step the list is a permutation of the records
\* collected by the scan and is in non-decreasing order of int(number).
C8_SortedByIntegerNumber ==
    bpc = "save" =>
        /\ SameBag(all_questions, process_all_text_files(files, scan))
        /\ \A a, b \in 1..Len(all_questions) :
              a < b => int(all_questions[a].question_number)
                          <= int(all_questions[b].question_number)

\* C8 witness: the scan collected number 10 before number 9, and the sorted
\* list holds 9 right before 10
C8_Witness ==
    /\ bpc = "save"
    /\ all_questions # process_all_text_files(files, scan)
    /\ \E n \in 1..(Len(all_questions) - 1) :
          /\ all_questions[n].question_number = <<"9">>
          /\ all_questions[n + 1].question_number = <<"1", "0">>

\* C9: every record of the written document carries the answer map's value
\* for its number, or the empty string when the map has no such key, and
\* number, type, text and options are those of the record.
C9_AnswerMergedByLookup ==
    Written =>
        /\ Len(disk_output.questions) = Len(all_questions)
        /\ \A n \in 1..Len(all_questions) :
              LET q == all_questions[n]
                  f == disk_output.questions[n]
              IN  /\ f.question_number = q.question_number
                  /\ f.question_type = q.question_type
                  /\ f.question_text = q.question_text
                  /\ f.options = q.options
                  /\ f.question_answer =
                        IF q.question_number \in DOMAIN answers_dict
                        THEN answers_dict[q.question_number] ELSE <<>>

\* C9 witness: a written document with one record whose number is a key of
\* the map and one whose number is not
C9_Witness ==
    /\ Written
    /\ \E n, m \in 1..Len(all_questions) :
          /\ all_questions[n].question_number \in DOMAIN answers_dict
          /\ disk_output.questions[n].question_answer # <<>>
          /\ all_questions[m].question_number \notin DOMAIN answers_dict
          /\ disk_output.questions[m].question_answer = <<>>

-----------------------------------------------------------------------------
(* Claims about the database load (checked under SpecDb) *)

\* the rows a complete run inserts: those of the items with a valid id
RECURSIVE RowsOf(_)
RowsOf(qs) ==
    IF qs = <<>> THEN <<>>
    ELSE LET row == map_json_to_db_row(Head(qs).fields)
         IN  IF row.id = None THEN RowsOf(Tail(qs))
             ELSE <<row>> \o RowsOf(Tail(qs))

AllObjects(qs) == \A n \in 1..Len(qs) : qs[n].json = "object"

\* C7: a run in which an insertion fails leaves the committed table as it
\* was before the run and raises; the table changes only by the commit of a
\* run without failure, and then holds exactly the rows inserted by the run.
C7_AllOrNothing ==
    /\ (dpc \in {"exit_error", "failed"} => table = prior)
    /\ (dpc = "failed" => raised)
    /\ (dpc \in {"start", "truncate", "insert"} => table = prior)
    /\ (dpc \in {"exit_ok", "done"} /\ questions_data # <<>> =>
            /\ AllObjects(questions_data)
            /\ table = RowsOf(questions_data)
            /\ ~raised)

\* C7 witness: a run over a table that held rows failed after the truncate
\* and one successful insertion
C7_Witness ==
    /\ dpc = "failed"
    /\ raised
    /\ prior # <<>>
    /\ inserted_count >= 1
    /\ table = prior

====
